---- MODULE Spec2Model ----
(***************************************************************************)
(* Model of js-sprite-animation (src/src/index.ts): the Sprite class, its  *)
(* tick/frame counters and its render call, and the SpriteAnimation        *)
(* driver with its self re-requesting gameLoop.  The model follows the     *)
(* second (later) variant of the two class pairs in the file.              *)
(*                                                                         *)
(* Numbers: the counters are JS numbers holding small integers; the frame  *)
(* width width/numberOfFrames is a JS division and is kept as an exact     *)
(* fraction [num, den] (floating point rounding is outside the model).     *)
(***************************************************************************)
EXTENDS Integers, Sequences, FiniteSets, TLC

VARIABLES
    sprite,       \* SpriteAnimation.sprite (Null before load()), or the Sprite under test
    canvas,       \* SpriteAnimation.canvas: its width and height (Null before load())
    surface,      \* the calls the last render() issued on the 2d context
    feedback,     \* feedbackElement.innerHTML: the stringified info (Null before the first)
    info,         \* the value the last direct getAnimationInfo() call returned
    listeners,    \* number of "load" listeners registered on the image
    rafPending,   \* requestAnimationFrame callbacks requested and not yet run
    playing,      \* the Animator's play/pause flag of the specification
    opts,         \* the arguments of the last load() call (Null before it)
    loads,        \* history: load() calls so far
    delivered,    \* history: image "load" events dispatched to a listener
    rafRequests,  \* history: requestAnimationFrame calls since the last load()
    gameLoops,    \* history: gameLoop invocations since the last load()
    nUpdate,      \* history: update() calls on the current sprite
    shown,        \* history: frameIndex when render() was last called (-1: never)
    nStep,        \* history: nextFrame()/prevFrame() calls on the current sprite
    transAt,      \* history: nUpdate at the last frame transition (0 at the start)
    gap,          \* history: update ticks between the last two transitions (0: none yet)
    calls,        \* history: the calls the last gameLoop invocation made, in order
    currentTicksPerFrame,  \* the effective rate of the specification (Null before load())
    sprite1,      \* a Sprite of the first variant (Null unless one is constructed)
    surface1      \* the calls the first variant's last render() issued

vars == <<sprite, canvas, surface, feedback, info, listeners, rafPending, playing,
          opts, loads, delivered, rafRequests, gameLoops,
          nUpdate, shown, nStep, transAt, gap,
          calls, currentTicksPerFrame, sprite1, surface1>>

(***************************************************************************)
(* Bounds of the model.                                                    *)
(***************************************************************************)
MaxTicksPerFrame == 4      \* ticksPerFrame of the update-only runs: 0..4
MaxFrames == 8             \* numberOfFrames of the update-only runs: 1..8
MaxUpdates == 40           \* update() calls of the update-only runs
SmallTicksPerFrame == 2    \* ticksPerFrame of the other runs: 0..2
SmallFrames == 3           \* numberOfFrames of the other runs: 1..3
MaxTicks == 7              \* update() calls on one sprite in the other runs
MaxSteps == 2              \* nextFrame()/prevFrame() calls on one sprite
MaxLoads == 2              \* load() calls on one SpriteAnimation
MaxEvents == 2             \* "load" events the image fires after load()
Widths == {7, 12}          \* sheet widths (7 is not a multiple of 2 or 3)
Heights == {5}             \* sheet heights

(***************************************************************************)
(* JS values.                                                              *)
(***************************************************************************)
Null == [null |-> TRUE]
\* the value of options.renderWidth / options.renderHeight when the key is absent
\* (a number no counter or size of the model takes)
Undefined == -1000
\* the render sizes of the options object: both absent, or both given
RenderSizes == {<<Undefined, Undefined>>, <<3, 2>>}

\* a / b on JS numbers, b # 0, as an exact fraction
Div(a, b) == [num |-> a, den |-> b]
\* k * q for an integer k and a fraction q
Mul(k, q) == [num |-> k * q.num, den |-> q.den]

(***************************************************************************)
(* Sprite (second variant).                                                *)
(***************************************************************************)
\* new Sprite(context, options): the field initialisers, then the setters
Sprite(options) ==
    [width          |-> options.width,
     renderWidth    |-> options.renderWidth,
     height         |-> options.height,
     renderHeight   |-> options.renderHeight,
     ticksPerFrame  |-> options.ticksPerFrame,
     numberOfFrames |-> options.numberOfFrames,
     totalTicks     |-> 0,
     totalFrames    |-> 0,
     totalLoops     |-> 0,
     frameIndex     |-> 0,
     tickCount      |-> 0]

\* mutant of render: the source x is taken one frame too far
renderNextFrame(s) ==
    << [op |-> "clearRect", x |-> 0, y |-> 0,
        w |-> s.renderWidth, h |-> s.renderHeight],
       [op |-> "drawImage",
        sx |-> Mul(s.frameIndex + 1, Div(s.width, s.numberOfFrames)),
        sy |-> 0,
        sw |-> Div(s.width, s.numberOfFrames),
        sh |-> s.height,
        dx |-> 0, dy |-> 0,
        dw |-> s.renderWidth, dh |-> s.renderHeight] >>

\* Sprite.render(): clearRect, then drawImage; the calls issued on the context
render(s) ==
    << [op |-> "clearRect", x |-> 0, y |-> 0,
        w |-> s.renderWidth, h |-> s.renderHeight],
       [op |-> "drawImage",
        sx |-> Mul(s.frameIndex, Div(s.width, s.numberOfFrames)),
        sy |-> 0,
        sw |-> Div(s.width, s.numberOfFrames),
        sh |-> s.height,
        dx |-> 0, dy |-> 0,
        dw |-> s.renderWidth, dh |-> s.renderHeight] >>

\* mutant of update: the transition test is >= instead of >
updateOffByOne(s) ==
    LET t == [s EXCEPT !.tickCount = @ + 1, !.totalTicks = @ + 1] IN
    IF t.tickCount >= t.ticksPerFrame
    THEN IF t.frameIndex < t.numberOfFrames - 1
         THEN [t EXCEPT !.tickCount = 0, !.totalFrames = @ + 1, !.frameIndex = @ + 1]
         ELSE [t EXCEPT !.tickCount = 0, !.totalFrames = @ + 1,
                        !.totalLoops = @ + 1, !.frameIndex = 0]
    ELSE t

\* mutant of update: the range test is against numberOfFrames, not numberOfFrames - 1
updateWrapLate(s) ==
    LET t == [s EXCEPT !.tickCount = @ + 1, !.totalTicks = @ + 1] IN
    IF t.tickCount > t.ticksPerFrame
    THEN IF t.frameIndex < t.numberOfFrames
         THEN [t EXCEPT !.tickCount = 0, !.totalFrames = @ + 1, !.frameIndex = @ + 1]
         ELSE [t EXCEPT !.tickCount = 0, !.totalFrames = @ + 1,
                        !.totalLoops = @ + 1, !.frameIndex = 0]
    ELSE t

\* mutant of update: the wrap branch forgets to count the loop
updateNoLoopCount(s) ==
    LET t == [s EXCEPT !.tickCount = @ + 1, !.totalTicks = @ + 1] IN
    IF t.tickCount > t.ticksPerFrame
    THEN IF t.frameIndex < t.numberOfFrames - 1
         THEN [t EXCEPT !.tickCount = 0, !.totalFrames = @ + 1, !.frameIndex = @ + 1]
         ELSE [t EXCEPT !.tickCount = 0, !.totalFrames = @ + 1, !.frameIndex = 0]
    ELSE t

\* mutant of update: tickCount is reset only when the animation wraps
updateResetOnWrap(s) ==
    LET t == [s EXCEPT !.tickCount = @ + 1, !.totalTicks = @ + 1] IN
    IF t.tickCount > t.ticksPerFrame
    THEN IF t.frameIndex < t.numberOfFrames - 1
         THEN [t EXCEPT !.totalFrames = @ + 1, !.frameIndex = @ + 1]
         ELSE [t EXCEPT !.tickCount = 0, !.totalFrames = @ + 1,
                        !.totalLoops = @ + 1, !.frameIndex = 0]
    ELSE t

\* mutant of update: totalTicks is counted only on ticks without a transition
updateTicksElse(s) ==
    LET t == [s EXCEPT !.tickCount = @ + 1] IN
    IF t.tickCount > t.ticksPerFrame
    THEN IF t.frameIndex < t.numberOfFrames - 1
         THEN [t EXCEPT !.tickCount = 0, !.totalFrames = @ + 1, !.frameIndex = @ + 1]
         ELSE [t EXCEPT !.tickCount = 0, !.totalFrames = @ + 1,
                        !.totalLoops = @ + 1, !.frameIndex = 0]
    ELSE [t EXCEPT !.totalTicks = @ + 1]

\* mutant of update: a ticksPerFrame of 0 never lets a frame pass
updateZeroNever(s) ==
    LET t == [s EXCEPT !.tickCount = @ + 1, !.totalTicks = @ + 1] IN
    IF t.ticksPerFrame # 0 /\ t.tickCount > t.ticksPerFrame
    THEN IF t.frameIndex < t.numberOfFrames - 1
         THEN [t EXCEPT !.tickCount = 0, !.totalFrames = @ + 1, !.frameIndex = @ + 1]
         ELSE [t EXCEPT !.tickCount = 0, !.totalFrames = @ + 1,
                        !.totalLoops = @ + 1, !.frameIndex = 0]
    ELSE t

\* Sprite.update()
update(s) ==
    LET t == [s EXCEPT !.tickCount = @ + 1, !.totalTicks = @ + 1] IN
    IF t.tickCount > t.ticksPerFrame
    THEN IF t.frameIndex < t.numberOfFrames - 1
         THEN [t EXCEPT !.tickCount = 0, !.totalFrames = @ + 1, !.frameIndex = @ + 1]
         ELSE [t EXCEPT !.tickCount = 0, !.totalFrames = @ + 1,
                        !.totalLoops = @ + 1, !.frameIndex = 0]
    ELSE t

\* mutant of getAnimationInfo: current_tick reports the ticks of the whole run
getAnimationInfoTotalTick(s) ==
    [total_ticks            |-> s.totalTicks,
     total_frames           |-> s.totalFrames,
     total_loops            |-> s.totalLoops,
     current_tick           |-> s.totalTicks,
     current_frame          |-> s.frameIndex,
     sprite_width           |-> s.width,
     sprite_height          |-> s.height,
     sprite_frames          |-> s.numberOfFrames,
     sprite_ticks_per_frame |-> s.ticksPerFrame,
     render_width           |-> s.renderWidth,
     render_height          |-> s.renderHeight,
     ticks_per_frame        |-> s.ticksPerFrame]

\* Sprite.getAnimationInfo()
getAnimationInfo(s) ==
    [total_ticks            |-> s.totalTicks,
     total_frames           |-> s.totalFrames,
     total_loops            |-> s.totalLoops,
     current_tick           |-> s.tickCount,
     current_frame          |-> s.frameIndex,
     sprite_width           |-> s.width,
     sprite_height          |-> s.height,
     sprite_frames          |-> s.numberOfFrames,
     sprite_ticks_per_frame |-> s.ticksPerFrame,
     render_width           |-> s.renderWidth,
     render_height          |-> s.renderHeight,
     ticks_per_frame        |-> s.ticksPerFrame]

\* mutant of nextFrame: the step forward is not counted in totalFrames
nextFrameUncounted(s) ==
    IF s.frameIndex < s.numberOfFrames - 1
    THEN [s EXCEPT !.tickCount = 0, !.frameIndex = @ + 1]
    ELSE [s EXCEPT !.tickCount = 0, !.totalLoops = @ + 1, !.frameIndex = 0]

\* Sprite.nextFrame() of the specification (4.1): the frame-advance transition
nextFrame(s) ==
    IF s.frameIndex < s.numberOfFrames - 1
    THEN [s EXCEPT !.tickCount = 0, !.totalFrames = @ + 1, !.frameIndex = @ + 1]
    ELSE [s EXCEPT !.tickCount = 0, !.totalFrames = @ + 1,
                   !.totalLoops = @ + 1, !.frameIndex = 0]

\* Sprite.prevFrame() of the specification (4.1)
prevFrame(s) ==
    IF s.frameIndex > 0
    THEN [s EXCEPT !.tickCount = 0, !.totalFrames = @ - 1, !.frameIndex = @ - 1]
    ELSE [s EXCEPT !.tickCount = 0, !.totalFrames = @ - 1,
                   !.totalLoops = @ - 1, !.frameIndex = s.numberOfFrames - 1]

(***************************************************************************)
(* SpriteAnimation (second variant).                                       *)
(***************************************************************************)
\* a || b on a number-or-undefined a: undefined and 0 are falsy
Or(a, b) == IF a = Undefined \/ a = 0 THEN b ELSE a

\* JSON.stringify(info, undefined, 2): keys whose value is undefined are left out
stringify(i) == [k \in {f \in DOMAIN i : i[f] # Undefined} |-> i[k]]

\* updateFeedback(): the new feedbackElement.innerHTML
updateFeedback(s) == stringify(getAnimationInfo(s))

\* the state one gameLoop invocation reads and writes, and the history it extends
LoopState ==
    [sprite |-> sprite, surface |-> surface, feedback |-> feedback,
     rafPending |-> rafPending, rafRequests |-> rafRequests,
     nUpdate |-> nUpdate, shown |-> shown, transAt |-> transAt, gap |-> gap,
     calls |-> calls]

\* mutant of gameLoop: the frame is drawn before the update of the same tick
gameLoopRenderFirst(st) ==
    LET requested == [st EXCEPT !.rafPending  = @ + 1,
                                !.rafRequests = @ + 1,
                                !.calls       = <<"requestAnimationFrame">>]
        rendered  == [requested EXCEPT !.surface = render(requested.sprite),
                                       !.shown   = requested.sprite.frameIndex,
                                       !.calls   = Append(@, "render")]
        updated   == [rendered EXCEPT !.sprite  = update(@),
                                      !.nUpdate = @ + 1,
                                      !.calls   = Append(@, "update")]
    IN  [updated EXCEPT !.feedback = updateFeedback(updated.sprite),
                        !.calls    = Append(@, "updateFeedback")]

\* this.gameLoop: re-request, update, render, feedback
gameLoop(st) ==
    LET requested == [st EXCEPT !.rafPending  = @ + 1,
                                !.rafRequests = @ + 1,
                                !.calls       = <<"requestAnimationFrame">>]
        updated   == [requested EXCEPT !.sprite  = update(@),
                                       !.nUpdate = @ + 1,
                                       !.calls   = Append(@, "update")]
        rendered  == [updated EXCEPT !.surface = render(updated.sprite),
                                     !.shown   = updated.sprite.frameIndex,
                                     !.calls   = Append(@, "render")]
    IN  [rendered EXCEPT !.feedback = updateFeedback(rendered.sprite),
                         !.calls    = Append(@, "updateFeedback")]

\* history: the ticks between transitions, from state st0 to the state st1 after it
observe(st0, st1) ==
    IF st1.sprite.totalFrames # st0.sprite.totalFrames
    THEN [st1 EXCEPT !.gap = st1.nUpdate - st0.transAt, !.transAt = st1.nUpdate]
    ELSE st1

\* the image's "load" event: every registered listener runs, in order
RECURSIVE dispatch(_, _)
dispatch(k, st) ==
    IF k = 0 THEN st ELSE dispatch(k - 1, observe(st, gameLoop(st)))

\* the variables a run of gameLoop leaves in state st
SetLoopState(st) ==
    /\ sprite' = st.sprite
    /\ surface' = st.surface
    /\ feedback' = st.feedback
    /\ rafPending' = st.rafPending
    /\ rafRequests' = st.rafRequests
    /\ nUpdate' = st.nUpdate
    /\ shown' = st.shown
    /\ transAt' = st.transAt
    /\ gap' = st.gap
    /\ calls' = st.calls

\* mutant of armLoop: the loop is requested at once instead of on the "load" event
armLoopNow == [listeners |-> listeners, requested |-> 1]

\* this.image.addEventListener("load", this.gameLoop): one more listener, no request
armLoop == [listeners |-> listeners + 1, requested |-> 0]

\* the arguments of load(): the sheet size and the options object
LoadArgs ==
    {[width |-> w, height |-> h, renderWidth |-> r[1], renderHeight |-> r[2],
      ticksPerFrame |-> tpf, numberOfFrames |-> n] :
        w \in Widths, h \in Heights, r \in RenderSizes,
        tpf \in 0..SmallTicksPerFrame, n \in 1..SmallFrames}

\* SpriteAnimation.load(image, width, height, options)
Load(a) ==
    /\ loads < MaxLoads
    /\ feedback' = Null
    /\ canvas' = [width  |-> Or(a.renderWidth, a.width),
                  height |-> Or(a.renderHeight, a.height)]
    /\ surface' = << >>
    /\ sprite' = Sprite([width |-> a.width, renderWidth |-> a.renderWidth,
                         height |-> a.height, renderHeight |-> a.renderHeight,
                         ticksPerFrame |-> a.ticksPerFrame,
                         numberOfFrames |-> a.numberOfFrames])
    /\ listeners' = armLoop.listeners
    /\ rafPending' = rafPending + armLoop.requested
    /\ rafRequests' = armLoop.requested
    /\ opts' = a
    /\ loads' = loads + 1
    /\ gameLoops' = 0
    /\ nUpdate' = 0 /\ shown' = -1 /\ nStep' = 0 /\ transAt' = 0 /\ gap' = 0
    /\ calls' = << >>
    /\ currentTicksPerFrame' = a.ticksPerFrame
    /\ UNCHANGED <<info, playing, delivered, sprite1, surface1>>

\* the image fires "load": the listeners registered by load() run gameLoop
ImageLoaded ==
    /\ listeners > 0
    /\ delivered < MaxEvents
    /\ nUpdate + listeners <= MaxTicks
    /\ SetLoopState(dispatch(listeners, LoopState))
    /\ delivered' = delivered + 1
    /\ gameLoops' = gameLoops + listeners
    /\ UNCHANGED <<canvas, info, listeners, playing, opts, loads, nStep,
                   currentTicksPerFrame, sprite1, surface1>>

\* the browser runs one requested animation-frame callback
Tick ==
    /\ rafPending > 0
    /\ nUpdate < MaxTicks
    /\ SetLoopState(dispatch(1, [LoopState EXCEPT !.rafPending = @ - 1]))
    /\ gameLoops' = gameLoops + 1
    /\ UNCHANGED <<canvas, info, listeners, playing, opts, loads, delivered, nStep,
                   currentTicksPerFrame, sprite1, surface1>>

\* play() of the specification (4.2)
Play ==
    /\ loads > 0
    /\ playing' = TRUE
    /\ UNCHANGED <<sprite, canvas, surface, feedback, info, listeners, rafPending,
                   opts, loads, delivered, rafRequests, gameLoops,
                   nUpdate, shown, nStep, transAt, gap,
                   calls, currentTicksPerFrame, sprite1, surface1>>

\* pause() of the specification (4.2)
Pause ==
    /\ loads > 0
    /\ playing' = FALSE
    /\ UNCHANGED <<sprite, canvas, surface, feedback, info, listeners, rafPending,
                   opts, loads, delivered, rafRequests, gameLoops,
                   nUpdate, shown, nStep, transAt, gap,
                   calls, currentTicksPerFrame, sprite1, surface1>>

\* frame(direction) of the specification (4.2): step, render, feedback
Frame(direction) ==
    /\ loads > 0
    /\ nStep < MaxSteps
    /\ sprite' = IF direction > 0 THEN nextFrame(sprite) ELSE prevFrame(sprite)
    /\ surface' = render(sprite')
    /\ feedback' = updateFeedback(sprite')
    /\ shown' = sprite'.frameIndex
    /\ nStep' = nStep + 1
    /\ transAt' = nUpdate
    /\ UNCHANGED <<canvas, info, listeners, rafPending, playing, opts, loads,
                   delivered, rafRequests, gameLoops, nUpdate, gap,
                   calls, currentTicksPerFrame, sprite1, surface1>>

\* after new SpriteAnimation(): nothing loaded
Init ==
    /\ sprite = Null /\ canvas = Null /\ surface = << >> /\ feedback = Null
    /\ info = Null /\ listeners = 0 /\ rafPending = 0 /\ playing = FALSE
    /\ opts = Null /\ loads = 0 /\ delivered = 0 /\ rafRequests = 0
    /\ gameLoops = 0 /\ nUpdate = 0 /\ shown = -1 /\ nStep = 0
    /\ transAt = 0 /\ gap = 0 /\ calls = << >>
    /\ currentTicksPerFrame = Null /\ sprite1 = Null /\ surface1 = << >>

Next ==
    \/ \E a \in LoadArgs : Load(a)
    \/ ImageLoaded
    \/ Tick
    \/ Play
    \/ Pause
    \/ \E d \in {-1, 1} : Frame(d)

Spec == Init /\ [][Next]_vars

(***************************************************************************)
(* The Sprite alone: its public methods called directly, in any order, on  *)
(* a Sprite constructed with a valid configuration.                        *)
(***************************************************************************)
\* the driver's variables, which a direct call on the Sprite leaves alone
driver == <<canvas, listeners, rafPending, playing, opts, loads, delivered,
            rafRequests, gameLoops, calls>>

\* the first variant's Sprite, which a call on the second variant leaves alone
variant1 == <<sprite1, surface1>>

\* the options of a constructed Sprite, its frame rate and frame count within bounds
SpriteOptions(maxTicksPerFrame, maxFrames) ==
    {[width |-> w, height |-> h, renderWidth |-> r[1], renderHeight |-> r[2],
      ticksPerFrame |-> t, numberOfFrames |-> n] :
        w \in Widths, h \in Heights, r \in RenderSizes,
        t \in 0..maxTicksPerFrame, n \in 1..maxFrames}

\* after new Sprite(context, options)
Constructed(options) ==
    /\ sprite \in {Sprite(o) : o \in options}
    /\ canvas = Null /\ surface = << >> /\ feedback = Null
    /\ info = Null /\ listeners = 0 /\ rafPending = 0 /\ playing = FALSE
    /\ opts = Null /\ loads = 0 /\ delivered = 0 /\ rafRequests = 0
    /\ gameLoops = 0 /\ nUpdate = 0 /\ shown = -1 /\ nStep = 0
    /\ transAt = 0 /\ gap = 0 /\ calls = << >>
    /\ currentTicksPerFrame = sprite.ticksPerFrame
    /\ sprite1 = Null /\ surface1 = << >>

\* sprite.update(), at most limit times
Update(limit) ==
    /\ nUpdate < limit
    /\ sprite' = update(sprite)
    /\ nUpdate' = nUpdate + 1
    /\ transAt' = IF sprite'.totalFrames # sprite.totalFrames THEN nUpdate' ELSE transAt
    /\ gap' = IF sprite'.totalFrames # sprite.totalFrames THEN nUpdate' - transAt ELSE gap
    /\ UNCHANGED <<surface, feedback, info, shown, nStep>>
    /\ UNCHANGED driver
    /\ UNCHANGED <<currentTicksPerFrame, variant1>>

\* sprite.render()
Render ==
    /\ surface' = render(sprite)
    /\ shown' = sprite.frameIndex
    /\ UNCHANGED <<sprite, feedback, info, nUpdate, nStep, transAt, gap>>
    /\ UNCHANGED driver
    /\ UNCHANGED <<currentTicksPerFrame, variant1>>

\* sprite.getAnimationInfo()
GetAnimationInfo ==
    /\ info' = getAnimationInfo(sprite)
    /\ UNCHANGED <<sprite, surface, feedback, nUpdate, shown, nStep, transAt, gap>>
    /\ UNCHANGED driver
    /\ UNCHANGED <<currentTicksPerFrame, variant1>>

\* sprite.nextFrame() of the specification: the transition, then a render
NextFrame ==
    /\ nStep < MaxSteps
    /\ sprite' = nextFrame(sprite)
    /\ surface' = render(sprite')
    /\ shown' = sprite'.frameIndex
    /\ nStep' = nStep + 1
    /\ transAt' = nUpdate
    /\ UNCHANGED <<feedback, info, nUpdate, gap>>
    /\ UNCHANGED driver
    /\ UNCHANGED <<currentTicksPerFrame, variant1>>

\* sprite.prevFrame() of the specification: the transition, then a render
PrevFrame ==
    /\ nStep < MaxSteps
    /\ sprite' = prevFrame(sprite)
    /\ surface' = render(sprite')
    /\ shown' = sprite'.frameIndex
    /\ nStep' = nStep + 1
    /\ transAt' = nUpdate
    /\ UNCHANGED <<feedback, info, nUpdate, gap>>
    /\ UNCHANGED driver
    /\ UNCHANGED <<currentTicksPerFrame, variant1>>

InitSprite == Constructed(SpriteOptions(SmallTicksPerFrame, SmallFrames))

NextSprite ==
    \/ Update(MaxTicks)
    \/ Render
    \/ GetAnimationInfo
    \/ NextFrame
    \/ PrevFrame

SpecSprite == InitSprite /\ [][NextSprite]_vars

(***************************************************************************)
(* update() alone, called again and again on a freshly constructed Sprite. *)
(***************************************************************************)
InitUpdate == Constructed(SpriteOptions(MaxTicksPerFrame, MaxFrames))

NextUpdate == Update(MaxUpdates)

SpecUpdate == InitUpdate /\ [][NextUpdate]_vars

(***************************************************************************)
(* Construction with any options object: the constructor as the code has   *)
(* it, then update() and render() on what it returned.                     *)
(***************************************************************************)
\* the options a caller can pass: frame rate and frame count from -1 upwards
AnyOptions ==
    {[width |-> w, height |-> h, renderWidth |-> r[1], renderHeight |-> r[2],
      ticksPerFrame |-> t, numberOfFrames |-> n] :
        w \in Widths, h \in Heights, r \in RenderSizes,
        t \in -1..SmallTicksPerFrame, n \in -1..SmallFrames}

\* new Sprite(context, options): the constructor stores the options unchecked
Construct(o) ==
    /\ sprite = Null
    /\ sprite' = Sprite(o)
    /\ currentTicksPerFrame' = o.ticksPerFrame
    /\ UNCHANGED <<surface, feedback, info, nUpdate, shown, nStep, transAt, gap>>
    /\ UNCHANGED driver
    /\ UNCHANGED variant1

NextConstruct ==
    \/ \E o \in AnyOptions : Construct(o)
    \/ sprite # Null /\ Update(MaxTicks)
    \/ sprite # Null /\ Render

SpecConstruct == Init /\ [][NextConstruct]_vars

(***************************************************************************)
(* Forward frame advances only: update() and nextFrame() on a fresh Sprite. *)
(***************************************************************************)
NextAdvance ==
    \/ Update(MaxTicks)
    \/ NextFrame

SpecAdvance == InitSprite /\ [][NextAdvance]_vars

(***************************************************************************)
(* Slow motion of the specification (4.1) on top of update() of the code.  *)
(***************************************************************************)
\* Sprite.toggleSlomo(): the effective rate flips between ticksPerFrame and
\* 3 * ticksPerFrame
toggleSlomo(c, s) == IF c = s.ticksPerFrame THEN 3 * s.ticksPerFrame ELSE s.ticksPerFrame

ToggleSlomo ==
    /\ currentTicksPerFrame' = toggleSlomo(currentTicksPerFrame, sprite)
    /\ UNCHANGED <<sprite, surface, feedback, info, nUpdate, shown, nStep, transAt, gap>>
    /\ UNCHANGED driver
    /\ UNCHANGED variant1

NextSlomo ==
    \/ ToggleSlomo
    \/ Update(MaxTicks)

SpecSlomo == InitSprite /\ [][NextSlomo]_vars


(***************************************************************************)
(* The first variant of Sprite (the earlier class of the file) next to the *)
(* second: both constructed from the same options, both given the same     *)
(* calls.                                                                  *)
(***************************************************************************)
\* new Sprite(context, options) of the first variant
Sprite1(options) ==
    [width          |-> options.width,
     height         |-> options.height,
     ticksPerFrame  |-> options.ticksPerFrame,
     numberOfFrames |-> options.numberOfFrames,
     frameIndex     |-> 0,
     tickCount      |-> 0]

\* Sprite.render() of the first variant: the frame is drawn at its own size
render1(s) ==
    << [op |-> "clearRect", x |-> 0, y |-> 0, w |-> s.width, h |-> s.height],
       [op |-> "drawImage",
        sx |-> Mul(s.frameIndex, Div(s.width, s.numberOfFrames)),
        sy |-> 0,
        sw |-> Div(s.width, s.numberOfFrames),
        sh |-> s.height,
        dx |-> 0, dy |-> 0,
        dw |-> Div(s.width, s.numberOfFrames), dh |-> s.height] >>

\* mutant of update1: the transition test is >= instead of >
update1OffByOne(s) ==
    LET t == [s EXCEPT !.tickCount = @ + 1] IN
    IF t.tickCount >= t.ticksPerFrame
    THEN IF t.frameIndex < t.numberOfFrames - 1
         THEN [t EXCEPT !.tickCount = 0, !.frameIndex = @ + 1]
         ELSE [t EXCEPT !.tickCount = 0, !.frameIndex = 0]
    ELSE t

\* Sprite.update() of the first variant (its console.log calls change no state)
update1(s) ==
    LET t == [s EXCEPT !.tickCount = @ + 1] IN
    IF t.tickCount > t.ticksPerFrame
    THEN IF t.frameIndex < t.numberOfFrames - 1
         THEN [t EXCEPT !.tickCount = 0, !.frameIndex = @ + 1]
         ELSE [t EXCEPT !.tickCount = 0, !.frameIndex = 0]
    ELSE t

\* one Sprite of each variant, constructed from the same options
InitVariants ==
    /\ \E o \in SpriteOptions(SmallTicksPerFrame, SmallFrames) :
           sprite = Sprite(o) /\ sprite1 = Sprite1(o)
    /\ canvas = Null /\ surface = << >> /\ feedback = Null
    /\ info = Null /\ listeners = 0 /\ rafPending = 0 /\ playing = FALSE
    /\ opts = Null /\ loads = 0 /\ delivered = 0 /\ rafRequests = 0
    /\ gameLoops = 0 /\ nUpdate = 0 /\ shown = -1 /\ nStep = 0
    /\ transAt = 0 /\ gap = 0 /\ calls = << >>
    /\ currentTicksPerFrame = sprite.ticksPerFrame
    /\ surface1 = << >>

\* update() on both
UpdateBoth ==
    /\ nUpdate < MaxTicks
    /\ sprite' = update(sprite)
    /\ sprite1' = update1(sprite1)
    /\ nUpdate' = nUpdate + 1
    /\ transAt' = IF sprite'.totalFrames # sprite.totalFrames THEN nUpdate' ELSE transAt
    /\ gap' = IF sprite'.totalFrames # sprite.totalFrames THEN nUpdate' - transAt ELSE gap
    /\ UNCHANGED <<surface, surface1, feedback, info, shown, nStep, currentTicksPerFrame>>
    /\ UNCHANGED driver

\* render() on both
RenderBoth ==
    /\ surface' = render(sprite)
    /\ surface1' = render1(sprite1)
    /\ shown' = sprite.frameIndex
    /\ UNCHANGED <<sprite, sprite1, feedback, info, nUpdate, nStep, transAt, gap,
                   currentTicksPerFrame>>
    /\ UNCHANGED driver

NextVariants ==
    \/ UpdateBoth
    \/ RenderBoth

SpecVariants == InitVariants /\ [][NextVariants]_vars


(***************************************************************************)
(* Properties.                                                             *)
(***************************************************************************)

\* C1: for every valid configuration (numberOfFrames >= 1, ticksPerFrame >= 0),
\* after any sequence of update()/nextFrame()/prevFrame() calls on a freshly
\* constructed Sprite, frameIndex is an integer in 0..numberOfFrames-1.
C1_FrameIndexInRange ==
    sprite.frameIndex \in 0..(sprite.numberOfFrames - 1)

\* a three-frame sprite that update() has wrapped once and nextFrame() has then
\* stepped to its last frame
C1_Witness ==
    /\ nUpdate >= 1 /\ nStep >= 1
    /\ sprite.numberOfFrames = 3 /\ sprite.frameIndex = 2 /\ sprite.totalLoops = 1

\* C4: on a fresh Sprite with ticksPerFrame = T, T update() calls cause no frame
\* transition (frameIndex and totalFrames still 0) and T+1 calls cause exactly one.
C4_TransitionAfterTPlusOne ==
    /\ nUpdate = sprite.ticksPerFrame =>
           sprite.totalFrames = 0 /\ sprite.frameIndex = 0
    /\ nUpdate = sprite.ticksPerFrame + 1 => sprite.totalFrames = 1

\* ticksPerFrame = 4 and five calls made: one transition
C4_Witness ==
    /\ sprite.ticksPerFrame = 4 /\ nUpdate = 5
    /\ sprite.totalFrames = 1 /\ sprite.frameIndex = 1

\* C5: on a fresh Sprite with ticksPerFrame = T and numberOfFrames = N, after
\* k*(T+1) update() calls tickCount = 0, totalTicks = k*(T+1), totalFrames = k,
\* frameIndex = k mod N and totalLoops = k div N; with T = 4, N = 8: after 5 calls
\* frameIndex = 1, tickCount = 0, totalTicks = 5, totalFrames = 1, and after 40
\* calls frameIndex = 0 and totalLoops = 1.
C5_StateAfterWholeFrames ==
    /\ nUpdate % (sprite.ticksPerFrame + 1) = 0 =>
           LET k == nUpdate \div (sprite.ticksPerFrame + 1) IN
               /\ sprite.tickCount = 0
               /\ sprite.totalTicks = k * (sprite.ticksPerFrame + 1)
               /\ sprite.totalFrames = k
               /\ sprite.frameIndex = k % sprite.numberOfFrames
               /\ sprite.totalLoops = k \div sprite.numberOfFrames
    /\ (sprite.ticksPerFrame = 4 /\ sprite.numberOfFrames = 8 /\ nUpdate = 5) =>
           /\ sprite.frameIndex = 1 /\ sprite.tickCount = 0
           /\ sprite.totalTicks = 5 /\ sprite.totalFrames = 1
    /\ (sprite.ticksPerFrame = 4 /\ sprite.numberOfFrames = 8 /\ nUpdate = 40) =>
           sprite.frameIndex = 0 /\ sprite.totalLoops = 1

\* the forty calls of the example made: one whole loop
C5_Witness ==
    /\ sprite.ticksPerFrame = 4 /\ sprite.numberOfFrames = 8 /\ nUpdate = 40
    /\ sprite.totalLoops = 1 /\ sprite.totalFrames = 8

C3_PausedTickChangesNothing ==
    [][(~playing /\ gameLoops' > gameLoops) =>
           /\ playing' = FALSE
           /\ rafRequests' > rafRequests
           /\ sprite' = sprite
           /\ surface' = surface]_vars

\* C6: while the loop runs (one update() and one render() per tick) each frame
\* stays the visible frame for exactly ticksPerFrame update ticks: the ticks
\* between two consecutive frame transitions, and between the loop's start and
\* the first transition, number ticksPerFrame (a positive integer).
C6_FrameVisibleForTicksPerFrame ==
    (sprite # Null /\ gap # 0 /\ sprite.ticksPerFrame >= 1) =>
        gap = sprite.ticksPerFrame

\* C8: when the options of load() omit renderWidth/renderHeight, they default to
\* the sheet width/height everywhere: the canvas is sized (sheetWidth,
\* sheetHeight) and every render() clears and draws to (0, 0, sheetWidth,
\* sheetHeight), never to an undefined size.
C8_RenderSizeDefaultsToSheet ==
    (opts # Null /\ opts.renderWidth = Undefined /\ opts.renderHeight = Undefined) =>
        /\ canvas = [width |-> opts.width, height |-> opts.height]
        /\ surface # << >> =>
               /\ surface[1].w = opts.width /\ surface[1].h = opts.height
               /\ surface[2].dw = opts.width /\ surface[2].dh = opts.height

C9_TickCountResetOnTransition ==
    [][nUpdate' = nUpdate + 1 =>
           /\ sprite'.tickCount \in 0..sprite.ticksPerFrame
           /\ sprite'.tickCount = 0 <=> sprite'.totalFrames # sprite.totalFrames
           /\ sprite'.totalFrames = sprite.totalFrames =>
                  sprite'.tickCount = sprite.tickCount + 1]_vars

\* an update() has just made a transition after three ticks on one frame, and
\* tickCount is 0 again
C9_Witness ==
    /\ sprite.ticksPerFrame = 2 /\ gap = 3 /\ transAt = nUpdate
    /\ sprite.tickCount = 0 /\ nStep > 0

\* C10: totalTicks never decreases: every update() adds exactly 1 to it, with or
\* without a frame transition, and no other operation (render, getAnimationInfo,
\* frame stepping) changes it.
C10_TotalTicksCountsUpdates ==
    [][IF nUpdate' = nUpdate + 1
       THEN sprite'.totalTicks = sprite.totalTicks + 1
       ELSE sprite'.totalTicks = sprite.totalTicks]_vars

\* updates with and without a transition, frame steps, a render and an info
\* call have all been made
C10_Witness ==
    /\ sprite.totalTicks = 4 /\ gap > 0 /\ sprite.tickCount > 0
    /\ nStep = 2 /\ info # Null /\ surface # << >>

\* C11: constructing a Sprite with numberOfFrames <= 0 or ticksPerFrame < 0 is
\* rejected at construction: no Sprite exists whose update() or render() later
\* runs with such a configuration.
C11_InvalidConfigRejected ==
    (sprite # Null /\ (nUpdate > 0 \/ surface # << >>)) =>
        sprite.numberOfFrames >= 1 /\ sprite.ticksPerFrame >= 0

\* C12: starting at frameIndex = 0, exactly numberOfFrames consecutive forward
\* frame advances (nextFrame(), the frame-advance transition of update()) return
\* frameIndex to 0 and add exactly 1 to totalLoops and numberOfFrames to
\* totalFrames; with numberOfFrames = 1 every advance leaves frameIndex = 0 and
\* adds 1 to totalLoops.  With ticksPerFrame = 0 every update() is one advance,
\* so the advances made are the update() and nextFrame() calls together:
\* frameIndex is 0 exactly after a multiple of numberOfFrames advances, and
\* totalLoops and totalFrames then count the loops and the advances.
C12_AdvancesWrapOncePerLoop ==
    sprite.ticksPerFrame = 0 =>
        LET a == nUpdate + nStep
            N == sprite.numberOfFrames
        IN  /\ sprite.frameIndex = 0 <=> a % N = 0
            /\ a % N = 0 => sprite.totalLoops = a \div N
            /\ sprite.totalFrames = a
            /\ N = 1 => (sprite.frameIndex = 0 /\ sprite.totalLoops = a)

\* six advances on a three-frame sprite, two of them by nextFrame(): two loops
C12_Witness ==
    /\ sprite.ticksPerFrame = 0 /\ sprite.numberOfFrames = 3
    /\ nUpdate = 4 /\ nStep = 2
    /\ sprite.frameIndex = 0 /\ sprite.totalLoops = 2 /\ sprite.totalFrames = 6

\* C13: from any non-boundary frameIndex (0 < frameIndex < numberOfFrames-1),
\* nextFrame() then prevFrame(), and prevFrame() then nextFrame(), restore
\* frameIndex and totalFrames and leave totalTicks and totalLoops unchanged.
C13_StepRoundTrip ==
    (0 < sprite.frameIndex /\ sprite.frameIndex < sprite.numberOfFrames - 1) =>
        LET a == prevFrame(nextFrame(sprite))
            b == nextFrame(prevFrame(sprite))
        IN  /\ a.frameIndex = sprite.frameIndex /\ a.totalFrames = sprite.totalFrames
            /\ a.totalTicks = sprite.totalTicks /\ a.totalLoops = sprite.totalLoops
            /\ b.frameIndex = sprite.frameIndex /\ b.totalFrames = sprite.totalFrames
            /\ b.totalTicks = sprite.totalTicks /\ b.totalLoops = sprite.totalLoops

\* one update() to the middle frame of three, then nextFrame() and prevFrame():
\* back on the middle frame with the counters of before
C13_Witness ==
    /\ sprite.ticksPerFrame = 0 /\ sprite.numberOfFrames = 3
    /\ nUpdate = 1 /\ nStep = 2
    /\ sprite.frameIndex = 1 /\ sprite.totalFrames = 1
    /\ sprite.totalTicks = 1 /\ sprite.totalLoops = 0

\* C14: toggleSlomo() once makes currentTicksPerFrame 3 * ticksPerFrame and
\* a second call restores it, and update() makes a frame transition only when
\* the incremented tickCount exceeds currentTicksPerFrame.
C14_SlomoTriplesRate ==
    [][/\ currentTicksPerFrame \in {sprite.ticksPerFrame, 3 * sprite.ticksPerFrame}
       /\ (nUpdate' = nUpdate /\ currentTicksPerFrame = sprite.ticksPerFrame)
              => currentTicksPerFrame' = 3 * sprite.ticksPerFrame
       /\ (nUpdate' = nUpdate /\ currentTicksPerFrame # sprite.ticksPerFrame)
              => currentTicksPerFrame' = sprite.ticksPerFrame
       /\ (nUpdate' = nUpdate + 1 /\ sprite'.totalFrames # sprite.totalFrames)
              => sprite.tickCount + 1 > currentTicksPerFrame]_vars

\* C15: every gameLoop invocation re-requests itself exactly once and then
\* calls, in this order and once each, update(), render() and updateFeedback();
\* the frame it draws and the feedback it writes are those of the state its own
\* update() left.
C15_TickOrder ==
    [][gameLoops' > gameLoops =>
           LET k == gameLoops' - gameLoops
           IN  /\ calls' = <<"requestAnimationFrame", "update", "render", "updateFeedback">>
               /\ rafRequests' = rafRequests + k
               /\ nUpdate' = nUpdate + k
               /\ sprite'.totalTicks = sprite.totalTicks + k
               /\ shown' = sprite'.frameIndex
               /\ surface' = render(sprite')
               /\ feedback' = updateFeedback(sprite')]_vars

\* the second gameLoop invocation, run from the request of the first, has moved
\* the sprite to frame 1 and drawn frame 1
C15_Witness ==
    /\ gameLoops = 2 /\ rafRequests = 2 /\ nUpdate = 2 /\ delivered = 1
    /\ calls = <<"requestAnimationFrame", "update", "render", "updateFeedback">>
    /\ sprite # Null /\ sprite.frameIndex = 1 /\ shown = 1
    /\ surface = render(sprite) /\ feedback = updateFeedback(sprite)

\* C16: render() and getAnimationInfo() leave the Sprite as it was (counters
\* and configuration), also on the fresh Sprite before any update(), and
\* getAnimationInfo() returns the current values of the counters.
C16_RenderAndInfoArePure ==
    [][/\ (nUpdate' = nUpdate /\ nStep' = nStep) => sprite' = sprite
       /\ info' # info =>
              /\ sprite' = sprite
              /\ info'.total_ticks = sprite.totalTicks
              /\ info'.total_frames = sprite.totalFrames
              /\ info'.total_loops = sprite.totalLoops
              /\ info'.current_tick = sprite.tickCount
              /\ info'.current_frame = sprite.frameIndex
              /\ info'.sprite_frames = sprite.numberOfFrames
              /\ info'.sprite_ticks_per_frame = sprite.ticksPerFrame
              /\ info'.ticks_per_frame = sprite.ticksPerFrame]_vars

\* render() and getAnimationInfo() after three update() calls, the Sprite in
\* the middle of frame 1: the frame is drawn, the snapshot has the counters
C16_Witness ==
    /\ nUpdate = 3 /\ nStep = 0 /\ sprite.ticksPerFrame = 1
    /\ sprite.totalTicks = 3 /\ sprite.tickCount = 1 /\ sprite.frameIndex = 1
    /\ shown = 1 /\ surface = render(sprite)
    /\ info = getAnimationInfo(sprite) /\ info.total_ticks = 3 /\ info.current_tick = 1

\* the same two calls on the freshly constructed Sprite, before any update()
C16_WitnessFresh ==
    /\ nUpdate = 0 /\ nStep = 0 /\ shown = 0 /\ surface = render(sprite)
    /\ info = getAnimationInfo(sprite) /\ info.total_ticks = 0 /\ sprite.totalTicks = 0

\* C17: with ticksPerFrame = 0 every update() makes a frame transition: after
\* k update() calls on a fresh Sprite totalFrames = k, tickCount = 0 and
\* frameIndex = k mod numberOfFrames.
C17_ZeroTicksPerFrame ==
    sprite.ticksPerFrame = 0 =>
        /\ sprite.totalFrames = nUpdate
        /\ sprite.tickCount = 0
        /\ sprite.frameIndex = nUpdate % sprite.numberOfFrames
        /\ nUpdate > 0 => gap = 1

\* ten update() calls on eight frames at ticksPerFrame 0: once around, frame 2
C17_Witness ==
    /\ sprite.ticksPerFrame = 0 /\ sprite.numberOfFrames = 8
    /\ nUpdate = 10 /\ sprite.totalFrames = 10
    /\ sprite.frameIndex = 2 /\ sprite.tickCount = 0

\* C18: after any number of update() calls on a fresh Sprite the counters
\* agree: totalFrames = totalLoops * numberOfFrames + frameIndex and
\* totalTicks = totalFrames * (ticksPerFrame + 1) + tickCount.
C18_CountersConsistent ==
    /\ sprite.totalFrames = sprite.totalLoops * sprite.numberOfFrames + sprite.frameIndex
    /\ sprite.totalTicks = sprite.totalFrames * (sprite.ticksPerFrame + 1) + sprite.tickCount

\* 23 update() calls, 3 frames of 3 ticks each: 7 transitions, 2 loops, frame 1,
\* 2 ticks into it
C18_Witness ==
    /\ sprite.ticksPerFrame = 2 /\ sprite.numberOfFrames = 3
    /\ nUpdate = 23 /\ sprite.totalTicks = 23 /\ sprite.totalFrames = 7
    /\ sprite.totalLoops = 2 /\ sprite.frameIndex = 1 /\ sprite.tickCount = 2

\* C19: at any time at most one animation-frame request of a SpriteAnimation
\* is outstanding, whatever the order of "load" events, load() calls and ticks.
C19_AtMostOneTickRequest == rafPending <= 1

\* C20: a Sprite of the first variant and one of the second, constructed with
\* the same options and given the same update() calls, have equal frameIndex
\* and equal tickCount after every call, and their render() calls draw the same
\* source rectangle of the sheet.
C20_VariantsEquivalent ==
    /\ sprite1.frameIndex = sprite.frameIndex
    /\ sprite1.tickCount = sprite.tickCount
    /\ LET d1 == render1(sprite1)[2]
           d2 == render(sprite)[2]
       IN  d1.sx = d2.sx /\ d1.sy = d2.sy /\ d1.sw = d2.sw /\ d1.sh = d2.sh
    /\ surface = << >> <=> surface1 = << >>
    /\ surface # << >> =>
           /\ surface1[2].sx = surface[2].sx /\ surface1[2].sy = surface[2].sy
           /\ surface1[2].sw = surface[2].sw /\ surface1[2].sh = surface[2].sh

\* five update() calls at ticksPerFrame 1 on three frames of a sheet 7 wide,
\* then render(): both variants draw frame 2 from x = 14/3
C20_Witness ==
    /\ nUpdate = 5 /\ sprite.ticksPerFrame = 1 /\ sprite.numberOfFrames = 3
    /\ sprite.width = 7
    /\ sprite1.frameIndex = 2 /\ sprite1.tickCount = 1
    /\ sprite.frameIndex = 2 /\ sprite.tickCount = 1
    /\ surface1 = render1(sprite1) /\ surface = render(sprite)
    /\ surface1[2].sx = Div(14, 3)

====
